---- MODULE Spec2Model ----
(***************************************************************************)
(* Model of the real-time multiplayer race handler                         *)
(* (backend/src/websocket/multiplayerHandler.ts).                          *)
(*                                                                         *)
(* The handler runs on one Node.js event loop: every socket.on(...)        *)
(* callback below is synchronous (race:create is declared async but never  *)
(* awaits), so each handler is one atomic action.  State is the two        *)
(* module-level Maps, the socket.io room membership, the pending           *)
(* setTimeout callbacks and the wall clock read by Date.now().             *)
(***************************************************************************)
EXTENDS Integers, Sequences, FiniteSets, TLC

\* ------------------------------------------------------ program constants
\* setTimeout(..., 5000)
GraceMs == 5000
\* data.duration || 60
DefaultDuration == 60
\* accuracy: 100, data.accuracy || 100
DefaultAccuracy == 100
\* null in `number | null` fields; Date.now() and positions are >= 1
Null == 0

\* ---------------------------------------------------------------- bounds
\* Participant entries all rooms together may hold beyond one per live
\* connection: a race:create or race:join that would exceed it is not taken.
MaxExtra == 0
\* Number of clock advances after the initial instant.
MaxTicks == 1
\* Milliseconds the clock advances per Tick.
TickMs == GraceMs
\* Most rooms ever created: a race:create beyond it is not taken.
MaxCreates == 2

\* ------------------------------------------------------------ the universe
\* Connections (socket.id).  s1 and s3 are two connections of one user.
Sockets == {"s1", "s2", "s3"}
\* Values generateRoomCode can return.
Codes == {"AB12C3", "ZZ99ZZ"}
\* Handshake tokens: absent, one that jwt.verify rejects, one it accepts.
Tokens == {"none", "invalid", "valid"}

\* The payload verifyToken returns for the connection's valid token.
User(s) ==
    IF s = "s2" THEN [userId |-> "u2", username |-> "bob"]
                ELSE [userId |-> "u1", username |-> "alice"]

\* Payloads the clients send.
CreateData == {[duration |-> 0, wordList |-> <<>>]}
ProgressData == {[wpm |-> 60, accuracy |-> 0, progress |-> 50]}
FinishData == {[wpm |-> 80, accuracy |-> 97]}

VARIABLES
    conn,          \* socket -> "new" | "connected" | "rejected" | "disconnected"
    activeRooms,   \* Map roomCode -> RaceRoom
    userToRoom,    \* Map socket.id -> roomCode
    sioRooms,      \* socket.io rooms: roomCode -> sockets that joined it
    timers,        \* pending setTimeout callbacks, in scheduling order
    now,           \* Date.now()
    created,       \* history: number of rooms created so far
    assigned,      \* history: last position assigned in the room held at a code
    last,          \* what the last step was, its acknowledgement and broadcasts
    running,       \* socket -> the handler invocation dispatched for it that
                   \* has not returned yet
    raceStatus,    \* socket -> raceStatus state of the useMultiplayer hook
                   \* that owns the socket
    clientRoomCode \* socket -> roomCode state of that hook (NoCode for null)

vars == <<conn, activeRooms, userToRoom, sioRooms, timers, now, created, assigned, last,
          running, raceStatus,
               clientRoomCode>>

\* ----------------------------------------------------------------- helpers
\* JavaScript `v || d` on numbers: 0 (and undefined) are falsy.
OrDefault(v, d) == IF v = 0 THEN d ELSE v

\* Fault: a delete that leaves the Map as it is.
MapDeleteKeep(m, k) == m

\* Map.set / Map.delete
MapSet(m, k, v) == [x \in DOMAIN m \cup {k} |-> IF x = k THEN v ELSE m[x]]
MapDelete(m, k) == [x \in DOMAIN m \ {k} |-> m[x]]

\* Fault: a participant literal that starts with accuracy 0.
NewParticipantNoAccuracy(s) ==
    [userId |-> User(s).userId, username |-> User(s).username, socketId |-> s,
     wpm |-> 0, accuracy |-> 0, progress |-> 0,
     finished |-> FALSE, finishedAt |-> Null, position |-> Null]

\* The participant literal of race:create and race:join.
NewParticipant(s) ==
    [userId |-> User(s).userId, username |-> User(s).username, socketId |-> s,
     wpm |-> 0, accuracy |-> DefaultAccuracy, progress |-> 0,
     finished |-> FALSE, finishedAt |-> Null, position |-> Null]

\* Fault: unshift where the code has push.
PushFront(participants, p) == <<p>> \o participants

\* room.participants.push(p)
Push(participants, p) == Append(participants, p)

\* Fault: a lookup that returns the first entry whoever sent the event.
FindParticipantFirst(participants, s) == IF Len(participants) = 0 THEN 0 ELSE 1

\* room.participants.find((p) => p.socketId === socket.id): index, 0 if none.
FindParticipant(participants, s) ==
    LET hits == {i \in 1..Len(participants) : participants[i].socketId = s}
    IN IF hits = {} THEN 0 ELSE CHOOSE i \in hits : \A j \in hits : i <= j

\* Fault: the finishers counted before the sender is marked finished.
FinishedCountBefore(participants) ==
    Cardinality({i \in 1..Len(participants) : participants[i].finished}) - 1

\* room.participants.filter((p) => p.finished).length
FinishedCount(participants) ==
    Cardinality({i \in 1..Len(participants) : participants[i].finished})

\* Fault: some() where the code has every().
AnyFinished(participants) ==
    \E i \in 1..Len(participants) : participants[i].finished

\* room.participants.every((p) => p.finished)
AllFinished(participants) ==
    \A i \in 1..Len(participants) : participants[i].finished

\* Fault: a filter that also clears the positions of the entries it keeps.
RemoveParticipantRenumber(participants, s) ==
    LET Keep(p) == p.socketId # s
        kept == SelectSeq(participants, Keep)
    IN [i \in 1..Len(kept) |-> [kept[i] EXCEPT !.position = Null]]

\* room.participants.filter((p) => p.socketId !== socket.id)
RemoveParticipant(participants, s) ==
    LET Keep(p) == p.socketId # s IN SelectSeq(participants, Keep)

\* Faults the checks below are tested against: a status or creator check
\* that lets every request through.
JoinAllowedAlways(room) == TRUE
StartAllowedAlways(room) == TRUE
IsCreatorAlways(room, s) == TRUE
ProgressAllowedAlways(room) == TRUE
FinishAllowedAlways(room) == TRUE
\* Fault: a finish check that only refuses rooms that have not started.
FinishAllowedNotWaiting(room) == room.status # "waiting"
\* Fault: a start check that only refuses completed rooms.
StartAllowedUnlessCompleted(room) == room.status # "completed"

\* room.status !== "waiting" (race:join), negated
JoinAllowed(room) == room.status = "waiting"
\* room.status !== "waiting" (race:start), negated
StartAllowed(room) == room.status = "waiting"
\* room.createdBy !== user.userId, negated
IsCreator(room, s) == room.createdBy = User(s).userId
\* room.status !== "in_progress" (race:progress), negated
ProgressAllowed(room) == room.status = "in_progress"
\* room.status !== "in_progress" (race:finish), negated
FinishAllowed(room) == room.status = "in_progress"

\* io.to(roomCode).emit(event, payload): delivered to the members of the
\* socket.io room at the moment of the call.
Emit(members, roomCode, event, payload) ==
    [event |-> event, to |-> roomCode, recipients |-> members[roomCode],
     payload |-> payload]

Fail(msg) == <<[success |-> FALSE, error |-> msg]>>
NoAck == <<>>
NoEmits == <<>>

\* What a handler wrote out: every handler calls callback(...) before its
\* first io.to(...).emit, and `emits` lists the broadcasts in call order.
Step(op, s, roomCode, ack, emits) ==
    [op |-> op, socket |-> s, roomCode |-> roomCode, ack |-> ack, emits |-> emits]

NoCode == "none"

\* Nothing waits to be written to the transport.
Idle == Step("idle", NoCode, NoCode, NoAck, NoEmits)

\* No handler invocation is in flight for a connection.
NoCall == [op |-> "none", data |-> <<>>, seen |-> <<>>, suspended |-> FALSE]

\* Participant entries held by all rooms of a registry together.
RECURSIVE TotalParticipants(_)
TotalParticipants(rooms) ==
    IF DOMAIN rooms = {} THEN 0
    ELSE LET c == CHOOSE x \in DOMAIN rooms : TRUE
         IN Len(rooms[c].participants)
            + TotalParticipants([x \in DOMAIN rooms \ {c} |-> rooms[x]])

\* Fault: a lookup that falls back to some active room when the connection
\* has no entry in the index.
LookupRoomAny(s) ==
    IF s \in DOMAIN userToRoom THEN userToRoom[s]
    ELSE IF DOMAIN activeRooms # {} THEN CHOOSE c \in DOMAIN activeRooms : TRUE
    ELSE NoCode

\* userToRoom.get(socket.id); NoCode stands for undefined.
LookupRoom(s) == IF s \in DOMAIN userToRoom THEN userToRoom[s] ELSE NoCode

\* Number of live connections.
Live == Cardinality({s \in Sockets : conn[s] = "connected"})

\* -------------------------------------------------------------------- Init
\* The server with both Maps empty and two clients about to connect.  The
\* third connection has come and gone: it created a room and left it, which
\* removed the room again.
Init ==
    /\ conn = [s \in Sockets |-> IF s = "s3" THEN "disconnected" ELSE "new"]
    /\ activeRooms = <<>>
    /\ userToRoom = <<>>
    /\ sioRooms = [c \in Codes |-> {}]
    /\ timers = <<>>
    /\ now = TickMs
    /\ created = 1
    /\ assigned = [c \in Codes |-> 0]
    /\ last = Idle
    /\ running = [s \in Sockets |-> NoCall]
    /\ raceStatus = [s \in Sockets |-> "waiting"]
    /\ clientRoomCode = [s \in Sockets |-> NoCode]

\* ----------------------------------------------------------------- actions
\* Fault: a verification that accepts every token it is given.
verifyTokenAny(token) == TRUE

\* jwt.verify accepts the token and the payload has its required fields.
verifyToken(token) == token = "valid"

\* What a handshake did: the token it presented and the error given to next().
ConnectStep(s, token, ack) ==
    [op |-> "connect", socket |-> s, roomCode |-> NoCode, ack |-> ack,
     emits |-> NoEmits, token |-> token]

\* io.use authentication middleware, then io.on("connection").
Connect(s, token) ==
    /\ last = Idle
    /\ conn[s] = "new"
    /\ IF token = "none"
       THEN /\ conn' = [conn EXCEPT ![s] = "rejected"]
            /\ last' = ConnectStep(s, token, Fail("Authentication token required"))
       ELSE IF ~verifyToken(token)
       THEN /\ conn' = [conn EXCEPT ![s] = "rejected"]
            /\ last' = ConnectStep(s, token, Fail("Invalid token"))
       ELSE /\ conn' = [conn EXCEPT ![s] = "connected"]
            /\ last' = ConnectStep(s, token, NoAck)
    /\ UNCHANGED <<activeRooms, userToRoom, sioRooms, timers, now, created, assigned, running, raceStatus,
               clientRoomCode>>

\* The values generateRoomCode() can return.
generateRoomCode == Codes

\* socket.on("race:create")
RaceCreate(s, data) ==
    /\ last = Idle
    /\ conn[s] = "connected"
    /\ created < MaxCreates
    /\ created' = created + 1
    /\ \E roomCode \in generateRoomCode :
        LET room == [id |-> roomCode, roomCode |-> roomCode,
                     createdBy |-> User(s).userId,
                     participants |-> <<NewParticipant(s)>>,
                     status |-> "waiting", startedAt |-> Null, endedAt |-> Null,
                     duration |-> OrDefault(data.duration, DefaultDuration),
                     wordList |-> data.wordList]
            members == [sioRooms EXCEPT ![roomCode] = @ \cup {s}]
        IN /\ TotalParticipants(MapSet(activeRooms, roomCode, room)) <= Live + MaxExtra
           /\ activeRooms' = MapSet(activeRooms, roomCode, room)
           /\ userToRoom' = MapSet(userToRoom, s, roomCode)
           /\ sioRooms' = members
           /\ assigned' = [assigned EXCEPT ![roomCode] = 0]
           /\ last' = Step("create", s, roomCode,
                           <<[success |-> TRUE, roomCode |-> roomCode, room |-> room]>>,
                           <<Emit(members, roomCode, "race:updated", room)>>)
    /\ UNCHANGED <<conn, timers, now, running, raceStatus,
               clientRoomCode>>

\* socket.on("race:join")
RaceJoin(s, roomCode) ==
    /\ last = Idle
    /\ conn[s] = "connected"
    /\ IF roomCode \notin DOMAIN activeRooms
       THEN /\ last' = Step("join", s, roomCode, Fail("Room not found"), NoEmits)
            /\ UNCHANGED <<activeRooms, userToRoom, sioRooms>>
       ELSE IF ~JoinAllowed(activeRooms[roomCode])
       THEN /\ last' = Step("join", s, roomCode, Fail("Race already started"), NoEmits)
            /\ UNCHANGED <<activeRooms, userToRoom, sioRooms>>
       ELSE LET old == activeRooms[roomCode]
                room == [old EXCEPT !.participants = Push(@, NewParticipant(s))]
                members == [sioRooms EXCEPT ![roomCode] = @ \cup {s}]
            IN /\ TotalParticipants(activeRooms) < Live + MaxExtra
               /\ activeRooms' = MapSet(activeRooms, roomCode, room)
               /\ userToRoom' = MapSet(userToRoom, s, roomCode)
               /\ sioRooms' = members
               /\ last' = Step("join", s, roomCode,
                               <<[success |-> TRUE, roomCode |-> roomCode, room |-> room]>>,
                               <<Emit(members, roomCode, "race:updated", room)>>)
    /\ UNCHANGED <<conn, timers, now, created, assigned, running, raceStatus,
               clientRoomCode>>

\* socket.on("race:start")
RaceStart(s) ==
    /\ last = Idle
    /\ conn[s] = "connected"
    /\ IF LookupRoom(s) = NoCode
       THEN /\ last' = Step("start", s, NoCode, Fail("Not in a room"), NoEmits)
            /\ UNCHANGED activeRooms
       ELSE LET roomCode == LookupRoom(s) IN
            IF roomCode \notin DOMAIN activeRooms \/ ~StartAllowed(activeRooms[roomCode])
            THEN /\ last' = Step("start", s, roomCode, Fail("Invalid room state"), NoEmits)
                 /\ UNCHANGED activeRooms
            ELSE IF ~IsCreator(activeRooms[roomCode], s)
            THEN /\ last' = Step("start", s, roomCode, Fail("Only room creator can start"), NoEmits)
                 /\ UNCHANGED activeRooms
            ELSE LET room == [activeRooms[roomCode] EXCEPT
                                 !.status = "in_progress", !.startedAt = now]
                 IN /\ activeRooms' = MapSet(activeRooms, roomCode, room)
                    /\ last' = Step("start", s, roomCode, <<[success |-> TRUE]>>,
                                    <<Emit(sioRooms, roomCode, "race:started",
                                           [startTime |-> room.startedAt])>>)
    /\ UNCHANGED <<conn, userToRoom, sioRooms, timers, now, created, assigned, running, raceStatus,
               clientRoomCode>>

\* socket.on("race:progress")
RaceProgress(s, data) ==
    /\ last = Idle
    /\ conn[s] = "connected"
    /\ LET roomCode == LookupRoom(s)
           room == activeRooms[roomCode]
           i == FindParticipant(room.participants, s)
       IN IF \/ roomCode = NoCode
             \/ roomCode \notin DOMAIN activeRooms
             \/ ~ProgressAllowed(room)
             \/ i = 0
          THEN /\ last' = Step("progress", s, roomCode, NoAck, NoEmits)
               /\ UNCHANGED activeRooms
          ELSE LET p == [room.participants[i] EXCEPT
                            !.wpm = OrDefault(data.wpm, 0),
                            !.accuracy = OrDefault(data.accuracy, DefaultAccuracy),
                            !.progress = OrDefault(data.progress, 0)]
                   room2 == [room EXCEPT !.participants[i] = p]
               IN /\ activeRooms' = MapSet(activeRooms, roomCode, room2)
                  /\ last' = Step("progress", s, roomCode, NoAck,
                                  <<Emit(sioRooms, roomCode, "race:progress",
                                         [userId |-> User(s).userId,
                                          username |-> User(s).username,
                                          wpm |-> p.wpm, accuracy |-> p.accuracy,
                                          progress |-> p.progress])>>)
    /\ UNCHANGED <<conn, userToRoom, sioRooms, timers, now, created, assigned, running, raceStatus,
               clientRoomCode>>

\* socket.on("race:finish")
RaceFinish(s, data) ==
    /\ last = Idle
    /\ conn[s] = "connected"
    /\ IF LookupRoom(s) = NoCode
       THEN /\ last' = Step("finish", s, NoCode, Fail("Not in a room"), NoEmits)
            /\ UNCHANGED <<activeRooms, timers, assigned>>
       ELSE LET roomCode == LookupRoom(s) IN
            IF roomCode \notin DOMAIN activeRooms \/ ~FinishAllowed(activeRooms[roomCode])
            THEN /\ last' = Step("finish", s, roomCode, Fail("Race not in progress"), NoEmits)
                 /\ UNCHANGED <<activeRooms, timers, assigned>>
            ELSE LET room == activeRooms[roomCode]
                     i == FindParticipant(room.participants, s)
                 IN IF i = 0
                    THEN /\ last' = Step("finish", s, roomCode, Fail("Participant not found"), NoEmits)
                         /\ UNCHANGED <<activeRooms, timers, assigned>>
                    ELSE LET marked == [room.participants EXCEPT
                                           ![i].finished = TRUE, ![i].finishedAt = now]
                             position == FinishedCount(marked)
                             final == [marked EXCEPT
                                          ![i].position = position,
                                          ![i].wpm = OrDefault(data.wpm, 0),
                                          ![i].accuracy = OrDefault(data.accuracy, DefaultAccuracy)]
                             done == AllFinished(final)
                             room2 == IF done
                                      THEN [room EXCEPT !.participants = final,
                                                        !.status = "completed",
                                                        !.endedAt = now]
                                      ELSE [room EXCEPT !.participants = final]
                             finishedMsg == Emit(sioRooms, roomCode, "race:participant-finished",
                                                 [username |-> User(s).username,
                                                  position |-> position,
                                                  wpm |-> final[i].wpm])
                         IN /\ activeRooms' = MapSet(activeRooms, roomCode, room2)
                            /\ assigned' = [assigned EXCEPT ![roomCode] = position]
                            /\ timers' = IF done
                                         THEN Append(timers, [roomCode |-> roomCode,
                                                              due |-> now + GraceMs])
                                         ELSE timers
                            /\ last' = Step("finish", s, roomCode,
                                            <<[success |-> TRUE, position |-> position]>>,
                                            IF done
                                            THEN <<finishedMsg,
                                                   Emit(sioRooms, roomCode, "race:completed", room2)>>
                                            ELSE <<finishedMsg>>)
    /\ UNCHANGED <<conn, userToRoom, sioRooms, now, created, running, raceStatus,
               clientRoomCode>>

\* socket.on("disconnect").  socket.io has already removed the socket from
\* every socket.io room when the handler runs.
Disconnect(s) ==
    /\ last = Idle
    /\ conn[s] = "connected"
    /\ conn' = [conn EXCEPT ![s] = "disconnected"]
    /\ LET members == [c \in Codes |-> sioRooms[c] \ {s}] IN
       /\ sioRooms' = members
       /\ IF s \notin DOMAIN userToRoom
          THEN /\ last' = Step("disconnect", s, NoCode, NoAck, NoEmits)
               /\ UNCHANGED <<activeRooms, userToRoom, assigned>>
          ELSE LET roomCode == userToRoom[s] IN
               /\ userToRoom' = MapDelete(userToRoom, s)
               /\ IF roomCode \notin DOMAIN activeRooms
                  THEN /\ last' = Step("disconnect", s, roomCode, NoAck, NoEmits)
                       /\ UNCHANGED <<activeRooms, assigned>>
                  ELSE LET room == [activeRooms[roomCode] EXCEPT
                                       !.participants = RemoveParticipant(@, s)]
                       IN IF Len(room.participants) = 0
                          THEN /\ activeRooms' = MapDelete(activeRooms, roomCode)
                               /\ assigned' = [assigned EXCEPT ![roomCode] = 0]
                               /\ last' = Step("disconnect", s, roomCode, NoAck, NoEmits)
                          ELSE /\ activeRooms' = MapSet(activeRooms, roomCode, room)
                               /\ UNCHANGED assigned
                               /\ last' = Step("disconnect", s, roomCode, NoAck,
                                               <<Emit(members, roomCode, "race:updated", room)>>)
    /\ UNCHANGED <<timers, now, created, running, raceStatus,
               clientRoomCode>>

\* The setTimeout callback of race:finish: activeRooms.delete(roomCode).
\* All timers have the same delay, so they fire in scheduling order.
TimerFire ==
    /\ last = Idle
    /\ timers # <<>>
    /\ now >= Head(timers).due
    /\ activeRooms' = MapDelete(activeRooms, Head(timers).roomCode)
    /\ assigned' = [assigned EXCEPT ![Head(timers).roomCode] = 0]
    /\ timers' = Tail(timers)
    /\ UNCHANGED <<conn, userToRoom, sioRooms, now, created, last, running, raceStatus,
               clientRoomCode>>

\* Wall-clock time passes: up to the bound, and beyond it as long as a
\* timer is pending that is not yet due.
Tick ==
    /\ last = Idle
    /\ \/ now + TickMs <= TickMs * (MaxTicks + 1)
       \/ timers # <<>> /\ now < Head(timers).due
    /\ now' = now + TickMs
    /\ UNCHANGED <<conn, activeRooms, userToRoom, sioRooms, timers, created, assigned, last, running, raceStatus,
               clientRoomCode>>

\* The acknowledgement and the broadcasts of the handler that just ran are
\* handed to the transport; the next event is processed after that.
Deliver ==
    /\ last # Idle
    /\ last' = Idle
    /\ UNCHANGED <<conn, activeRooms, userToRoom, sioRooms, timers, now, created, assigned, running, raceStatus,
               clientRoomCode>>

Next ==
    \/ \E s \in Sockets, token \in Tokens : Connect(s, token)
    \/ \E s \in Sockets, data \in CreateData : RaceCreate(s, data)
    \/ \E s \in Sockets, roomCode \in Codes : RaceJoin(s, roomCode)
    \/ \E s \in Sockets : RaceStart(s)
    \/ \E s \in Sockets, data \in ProgressData : RaceProgress(s, data)
    \/ \E s \in Sockets, data \in FinishData : RaceFinish(s, data)
    \/ \E s \in Sockets : Disconnect(s)
    \/ TimerFire
    \/ Tick
    \/ Deliver

Spec == Init /\ [][Next]_vars

\* The event loop hands every result to the transport, the clock keeps
\* advancing and the timers phase runs between callbacks however many events
\* arrive: a due timer is not starved by socket traffic.
Fairness ==
    /\ WF_vars(Deliver)
    /\ SF_vars(Tick)
    /\ SF_vars(TimerFire)

SpecLive == Init /\ [][Next]_vars /\ Fairness

\* The server right after initializeWebSocket, with two clients about to
\* connect: the third connection has come and gone without a command.
InitRooms ==
    /\ conn = [s \in Sockets |-> IF s = "s3" THEN "disconnected" ELSE "new"]
    /\ activeRooms = <<>>
    /\ userToRoom = <<>>
    /\ sioRooms = [c \in Codes |-> {}]
    /\ timers = <<>>
    /\ now = TickMs
    /\ created = 0
    /\ assigned = [c \in Codes |-> 0]
    /\ last = Idle
    /\ running = [s \in Sockets |-> NoCall]
    /\ raceStatus = [s \in Sockets |-> "waiting"]
    /\ clientRoomCode = [s \in Sockets |-> NoCode]

SpecRooms == InitRooms /\ [][Next]_vars

\* The same server with three clients about to connect, one room having
\* been created (and removed again) before.
InitRace ==
    /\ conn = [s \in Sockets |-> "new"]
    /\ activeRooms = <<>>
    /\ userToRoom = <<>>
    /\ sioRooms = [c \in Codes |-> {}]
    /\ timers = <<>>
    /\ now = TickMs
    /\ created = 1
    /\ assigned = [c \in Codes |-> 0]
    /\ last = Idle
    /\ running = [s \in Sockets |-> NoCall]
    /\ raceStatus = [s \in Sockets |-> "waiting"]
    /\ clientRoomCode = [s \in Sockets |-> NoCode]

SpecRace == InitRace /\ [][Next]_vars

\* ------------------------------------------------- the event loop, stepwise
\* The specifications above take each socket.on callback as one step.  Here
\* the event loop is spelled out: it dispatches a callback (Begin), the
\* callback body runs (Apply) and the callback returns (Return).  A callback
\* gives the loop the chance to dispatch another one before its body is
\* through only where it awaits.

\* Fault: race:finish awaits (a database write, say) between reading the room
\* and updating it.
AwaitsInFinish(op) == op = "finish"

\* The handler of event `op` contains an await expression.  None does:
\* race:create is declared async but has no await, the others are plain
\* functions.
Awaits(op) == FALSE

\* The call stack is empty: every dispatched callback has returned or is
\* suspended at an await.
StackEmpty == \A s \in Sockets : running[s].op = "none" \/ running[s].suspended

\* The events a client can emit, with their payloads.
Events ==
    {[op |-> "create", data |-> d] : d \in CreateData}
      \cup {[op |-> "join", data |-> [roomCode |-> c]] : c \in Codes}
      \cup {[op |-> "progress", data |-> d] : d \in ProgressData}
      \cup {[op |-> "finish", data |-> d] : d \in FinishData}
      \cup {[op |-> "start", data |-> <<>>], [op |-> "disconnect", data |-> <<>>]}

\* The body of the callback registered for `op`.
Handler(op, s, data) ==
    CASE op = "create" -> RaceCreate(s, data)
      [] op = "join" -> RaceJoin(s, data.roomCode)
      [] op = "start" -> RaceStart(s)
      [] op = "progress" -> RaceProgress(s, data)
      [] op = "finish" -> RaceFinish(s, data)
      [] op = "disconnect" -> Disconnect(s)

\* The loop takes an event of connection s from the poll queue and calls its
\* callback, which reads the state it is going to check.
Begin(s, e) ==
    /\ last = Idle
    /\ conn[s] = "connected"
    /\ StackEmpty
    /\ running[s].op = "none"
    /\ ENABLED Handler(e.op, s, e.data)
    /\ running' = [running EXCEPT ![s] =
                      [op |-> e.op, data |-> e.data, seen |-> activeRooms,
                       suspended |-> Awaits(e.op)]]
    /\ UNCHANGED <<conn, activeRooms, userToRoom, sioRooms, timers, now, created,
                   assigned, last, raceStatus, clientRoomCode>>

\* The callback of s runs (or resumes) and does its checks and updates.
Apply(s) ==
    /\ running[s].op # "none"
    /\ \A t \in Sockets \ {s} : running[t].op = "none" \/ running[t].suspended
    /\ Handler(running[s].op, s, running[s].data)

\* The callback returns; its acknowledgement and broadcasts are written out.
Return ==
    /\ last # Idle
    /\ last' = Idle
    /\ running' = [s \in Sockets |-> IF s = last.socket THEN NoCall ELSE running[s]]
    /\ UNCHANGED <<conn, activeRooms, userToRoom, sioRooms, timers, now, created, assigned,
                   raceStatus, clientRoomCode>>

NextLoop ==
    \/ \E s \in Sockets, token \in Tokens : StackEmpty /\ Connect(s, token)
    \/ \E s \in Sockets, e \in Events : Begin(s, e)
    \/ \E s \in Sockets : Apply(s)
    \/ Return
    \/ StackEmpty /\ TimerFire
    \/ StackEmpty /\ Tick

SpecLoop == Init /\ [][NextLoop]_vars

\* ------------------------------------------------ the client hook, attached
\* Every connection is owned by one instance of the useMultiplayer hook,
\* which keeps raceStatus and roomCode as component state.  The hook's
\* commands emit the socket events; the acknowledgement and the broadcasts
\* of the handler reach the hook before the server handles the next event.
\* The hook's participants and error state are left out: nothing here reads
\* them.

\* createRoom(duration, wordList): socket.emit("race:create", ...).
createRoom(s, data) == RaceCreate(s, data)

\* joinRoom(code): socket.emit("race:join", {roomCode: code}, ...).
joinRoom(s, code) == RaceJoin(s, code)

\* startRace(): returns early while the hook's roomCode is null.
startRace(s) ==
    /\ clientRoomCode[s] # NoCode
    /\ RaceStart(s)

\* updateProgress(wpm, accuracy, progress): same early return.
updateProgress(s, data) ==
    /\ clientRoomCode[s] # NoCode
    /\ RaceProgress(s, data)

\* finishRace(wpm, accuracy): same early return.
finishRace(s, data) ==
    /\ clientRoomCode[s] # NoCode
    /\ RaceFinish(s, data)

\* The ack callback of createRoom and joinRoom: a successful response sets
\* roomCode (and participants and error); nothing touches raceStatus.
OnAck(code, s, step) ==
    IF /\ step.op \in {"create", "join"}
       /\ step.socket = s
       /\ Len(step.ack) = 1
       /\ step.ack[1].success
    THEN step.ack[1].roomCode
    ELSE code

\* The hook's broadcast listeners, as far as raceStatus goes: race:started
\* sets "in_progress", race:completed sets "completed", the others
\* (race:updated, race:progress, race:participant-finished) only update the
\* participants list.  The listeners do not look at the room an event
\* belongs to.
OnBroadcast(status, s, e) ==
    IF s \notin e.recipients THEN status
    ELSE IF e.event = "race:started" THEN "in_progress"
    ELSE IF e.event = "race:completed" THEN "completed"
    ELSE status

\* The listeners applied to the broadcasts of one handler, in emit order.
RECURSIVE OnBroadcasts(_, _, _)
OnBroadcasts(status, s, emits) ==
    IF emits = <<>> THEN status
    ELSE OnBroadcasts(OnBroadcast(status, s, Head(emits)), s, Tail(emits))

\* The acknowledgement and the broadcasts of the handler that just ran
\* arrive at the hooks of their recipients.
Receive ==
    /\ last # Idle
    /\ last' = Idle
    /\ clientRoomCode' = [s \in Sockets |-> OnAck(clientRoomCode[s], s, last)]
    /\ raceStatus' = [s \in Sockets |-> OnBroadcasts(raceStatus[s], s, last.emits)]
    /\ UNCHANGED <<conn, activeRooms, userToRoom, sioRooms, timers, now, created, assigned,
                   running>>

NextClient ==
    \/ \E s \in Sockets, token \in Tokens : Connect(s, token)
    \/ \E s \in Sockets, data \in CreateData : createRoom(s, data)
    \/ \E s \in Sockets, code \in Codes : joinRoom(s, code)
    \/ \E s \in Sockets : startRace(s)
    \/ \E s \in Sockets, data \in ProgressData : updateProgress(s, data)
    \/ \E s \in Sockets, data \in FinishData : finishRace(s, data)
    \/ \E s \in Sockets : Disconnect(s)
    \/ TimerFire
    \/ Tick
    \/ Receive

\* A fresh server and two clients, each mounting the hook once.
SpecClient == InitRooms /\ [][NextClient]_vars

\* ================================================================== claims
\* The step just taken was the handler `op` (handlers run from Idle).
Handled(op) == last = Idle /\ last'.op = op
\* The room the registry holds at code c.
Has(c) == c \in DOMAIN activeRooms
\* Code c holds the same room object before and after the step.
SameRoom(c) ==
    /\ c \in DOMAIN activeRooms
    /\ c \in DOMAIN activeRooms'
    /\ ~(Handled("create") /\ last'.roomCode = c)
\* The indices of a participants array.
Indices(participants) == 1..Len(participants)

\* C1: a room's status only ever steps waiting -> in_progress and
\* in_progress -> completed; it never regresses, never skips in_progress and
\* never changes once completed.
C1_StatusSteps ==
    [][\A c \in Codes :
          SameRoom(c) =>
             \/ activeRooms'[c].status = activeRooms[c].status
             \/ activeRooms[c].status = "waiting"
                  /\ activeRooms'[c].status = "in_progress"
             \/ activeRooms[c].status = "in_progress"
                  /\ activeRooms'[c].status = "completed"]_vars
\* A room that went through both steps.
C1_Witness ==
    \E c \in DOMAIN activeRooms :
        /\ activeRooms[c].status = "completed"
        /\ activeRooms[c].startedAt # Null
        /\ activeRooms[c].endedAt # Null

\* C2: race:create always picks a code that is not the key of an active
\* room: a successful create never replaces an entry of activeRooms.
C2_CreateNeverOverwrites ==
    [][Handled("create") => last'.roomCode \notin DOMAIN activeRooms]_vars

\* C3: in a room of N participants none of whose connections has gone, once
\* all N have finished the positions they hold are exactly 1..N, without
\* duplicates, whatever the order of the events.
C3_PositionsArePermutation ==
    \A c \in DOMAIN activeRooms :
        LET ps == activeRooms[c].participants IN
        (/\ Len(ps) >= 1
         /\ AllFinished(ps)
         /\ \A s \in Sockets : conn[s] # "disconnected") =>
            /\ {ps[i].position : i \in Indices(ps)} = 1..Len(ps)
            /\ \A i, j \in Indices(ps) : i # j => ps[i].position # ps[j].position

\* C4: the positions assigned in a room by successive finishes are 1, 2, 3,
\* ... in processing order: each first finish of a participant gets the
\* position after the one assigned last in that room, also when finished
\* participants disconnected in between.
C4_PositionsContiguous ==
    [][\A s \in Sockets :
          (/\ Handled("finish")
           /\ last'.socket = s
           /\ last'.ack[1].success
           /\ ~activeRooms[userToRoom[s]].participants[
                  FindParticipant(activeRooms[userToRoom[s]].participants, s)].finished)
          => last'.ack[1].position = assigned[userToRoom[s]] + 1]_vars

\* C5: a race:finish from a connection whose participant is already finished
\* is ignored: it changes no room state (in particular neither position nor
\* finishedAt) and no participant-finished broadcast is emitted for it.
C5_RefinishIgnored ==
    [][\A s \in Sockets :
          (/\ Handled("finish")
           /\ last'.socket = s
           /\ s \in DOMAIN userToRoom
           /\ Has(userToRoom[s])
           /\ LET ps == activeRooms[userToRoom[s]].participants
                  i == FindParticipant(ps, s)
              IN i # 0 /\ ps[i].finished)
          => /\ activeRooms' = activeRooms
             /\ timers' = timers
             /\ last'.emits = NoEmits]_vars

\* C6: a room's participant list never holds two entries with the same
\* identity (userId).
C6_UniqueIdentities ==
    \A c \in DOMAIN activeRooms :
        LET ps == activeRooms[c].participants IN
        \A i, j \in Indices(ps) : i # j => ps[i].userId # ps[j].userId

\* C7: race:join succeeds only while the room is waiting; against a room
\* that is in_progress or completed it fails with "Race already started",
\* adds no participant, binds nothing in the index and broadcasts nothing.
C7_JoinOnlyWhileWaiting ==
    [][\A c \in Codes :
          (Handled("join") /\ last'.roomCode = c) =>
             /\ last'.ack[1].success => Has(c) /\ activeRooms[c].status = "waiting"
             /\ (Has(c) /\ activeRooms[c].status # "waiting") =>
                   /\ last'.ack = Fail("Race already started")
                   /\ last'.emits = NoEmits
                   /\ activeRooms' = activeRooms
                   /\ userToRoom' = userToRoom
                   /\ sioRooms' = sioRooms]_vars
\* A join refused during the grace period of a completed room.
C7_Witness ==
    /\ last.op = "join"
    /\ last.ack = Fail("Race already started")
    /\ Has(last.roomCode)
    /\ activeRooms[last.roomCode].status = "completed"

\* C8: race:start by a connection whose identity is not the room's creator
\* fails with "Only room creator can start": the room stays waiting,
\* startedAt stays null, nothing is broadcast; and only an event carrying the
\* creator's identity moves a room from waiting to in_progress.
C8_OnlyCreatorStarts ==
    [][\A c \in Codes :
          /\ \A s \in Sockets :
                (/\ Handled("start")
                 /\ last'.socket = s
                 /\ s \in DOMAIN userToRoom
                 /\ userToRoom[s] = c
                 /\ Has(c)
                 /\ activeRooms[c].status = "waiting"
                 /\ activeRooms[c].createdBy # User(s).userId)
                => /\ last'.ack = Fail("Only room creator can start")
                   /\ last'.emits = NoEmits
                   /\ activeRooms' = activeRooms
                   /\ activeRooms'[c].startedAt = Null
          /\ (/\ SameRoom(c)
              /\ activeRooms[c].status = "waiting"
              /\ activeRooms'[c].status = "in_progress")
             => /\ Handled("start")
                /\ User(last'.socket).userId = activeRooms[c].createdBy]_vars
\* A non-creator participant of a waiting room was refused.
C8_Witness ==
    /\ last.op = "start"
    /\ last.ack = Fail("Only room creator can start")
    /\ Has(last.roomCode)
    /\ activeRooms[last.roomCode].status = "waiting"
    /\ FindParticipant(activeRooms[last.roomCode].participants, last.socket) # 0

\* C9: race:progress processed while the room is waiting or completed changes
\* no participant's wpm, accuracy or progress and no other state, surfaces no
\* error and emits no broadcast.
C9_ProgressDiscarded ==
    [][\A s \in Sockets :
          (/\ Handled("progress")
           /\ last'.socket = s
           /\ s \in DOMAIN userToRoom
           /\ Has(userToRoom[s])
           /\ activeRooms[userToRoom[s]].status \in {"waiting", "completed"})
          => /\ activeRooms' = activeRooms
             /\ userToRoom' = userToRoom
             /\ sioRooms' = sioRooms
             /\ timers' = timers
             /\ conn' = conn
             /\ last'.ack = NoAck
             /\ last'.emits = NoEmits]_vars
\* A participant of a waiting room reported progress.
C9_Witness ==
    /\ last.op = "progress"
    /\ last.socket \in DOMAIN userToRoom
    /\ Has(userToRoom[last.socket])
    /\ activeRooms[userToRoom[last.socket]].status = "waiting"
    /\ FindParticipant(activeRooms[userToRoom[last.socket]].participants, last.socket) # 0
\* The same for a completed room.
C9_WitnessCompleted ==
    /\ last.op = "progress"
    /\ last.socket \in DOMAIN userToRoom
    /\ Has(userToRoom[last.socket])
    /\ activeRooms[userToRoom[last.socket]].status = "completed"
    /\ FindParticipant(activeRooms[userToRoom[last.socket]].participants, last.socket) # 0

\* C10: a disconnect never blocks completion: no room stays in_progress while
\* it has participants and every present participant is finished.
C10_AllFinishedCompletes ==
    \A c \in DOMAIN activeRooms :
        LET room == activeRooms[c] IN
        (Len(room.participants) >= 1 /\ AllFinished(room.participants))
            => room.status # "in_progress"

\* C11: when a participant that has finished disconnects, every other
\* participant of its room is still in the room afterwards with the same
\* position, finished flag and finishedAt, and nobody else is.
C11_DisconnectKeepsOthers ==
    [][\A s \in Sockets :
          (/\ Handled("disconnect")
           /\ last'.socket = s
           /\ s \in DOMAIN userToRoom
           /\ Has(userToRoom[s])
           /\ LET ps == activeRooms[userToRoom[s]].participants
                  i == FindParticipant(ps, s)
              IN i # 0 /\ ps[i].finished)
          => LET c == userToRoom[s]
                 ps == activeRooms[c].participants
                 others == {i \in Indices(ps) : ps[i].socketId # s}
             IN others # {} =>
                  /\ c \in DOMAIN activeRooms'
                  /\ Len(activeRooms'[c].participants) = Cardinality(others)
                  /\ \A i \in others :
                        \E j \in Indices(activeRooms'[c].participants) :
                           LET q == activeRooms'[c].participants[j] IN
                           /\ q.socketId = ps[i].socketId
                           /\ q.position = ps[i].position
                           /\ q.finished = ps[i].finished
                           /\ q.finishedAt = ps[i].finishedAt]_vars
\* The participant that finished first has left; the one that finished
\* second is alone in the room and still holds position 2.
C11_Witness ==
    /\ last.op = "disconnect"
    /\ Has(last.roomCode)
    /\ LET ps == activeRooms[last.roomCode].participants IN
       /\ Len(ps) = 1
       /\ ps[1].finished
       /\ ps[1].position = 2
       /\ ps[1].finishedAt # Null

\* C12: no room of the registry has zero participants; the disconnect of the
\* connection that holds all participant entries of its room removes the room
\* in the same step, whatever its status; and a race:join with a code that
\* is not in the registry is answered "Room not found" and changes nothing.
C12_NoEmptyRoom ==
    /\ [](\A c \in DOMAIN activeRooms : Len(activeRooms[c].participants) >= 1)
    /\ [][/\ \A s \in Sockets :
                (/\ Handled("disconnect")
                 /\ last'.socket = s
                 /\ s \in DOMAIN userToRoom
                 /\ Has(userToRoom[s])
                 /\ \A i \in Indices(activeRooms[userToRoom[s]].participants) :
                       activeRooms[userToRoom[s]].participants[i].socketId = s)
                => userToRoom[s] \notin DOMAIN activeRooms'
          /\ \A c \in Codes :
                (Handled("join") /\ last'.roomCode = c /\ ~Has(c))
                => /\ last'.ack = Fail("Room not found")
                   /\ last'.emits = NoEmits
                   /\ activeRooms' = activeRooms
                   /\ userToRoom' = userToRoom]_vars
\* The one room of the run was emptied by a disconnect before any race
\* completed (no removal was ever scheduled), and a join is then refused.
C12_Witness ==
    /\ last.op = "join"
    /\ last.ack = Fail("Room not found")
    /\ created = MaxCreates
    /\ activeRooms = <<>>
    /\ timers = <<>>
    /\ now = TickMs
    /\ \E s \in Sockets \ {"s3"} : conn[s] = "disconnected"

\* The step is the callback of the oldest pending timer.
TimerFired == timers # <<>> /\ timers' = Tail(timers)

\* C13: a completed room leaves the registry only in the step in which the
\* grace timer of its code fires, when the grace period is over: until then
\* it stays in activeRooms.
C13_CompletedStaysUntilTimer ==
    [][\A c \in Codes :
          (/\ Has(c)
           /\ activeRooms[c].status = "completed"
           /\ c \notin DOMAIN activeRooms')
          => /\ TimerFired
             /\ Head(timers).roomCode = c
             /\ now >= activeRooms[c].endedAt + GraceMs]_vars

\* C15: the removal scheduled when a room completes removes only that room:
\* the room a firing timer deletes is completed and is the one whose
\* completion scheduled the timer, never a room created later under the
\* same code.
C15_TimerRemovesItsRoom ==
    [][(TimerFired /\ Has(Head(timers).roomCode))
          => /\ activeRooms[Head(timers).roomCode].status = "completed"
             /\ activeRooms[Head(timers).roomCode].endedAt + GraceMs
                   = Head(timers).due]_vars

\* C14: a successful race:finish after which every participant of the room
\* is finished sets status to completed and endedAt to the current time,
\* emits race:completed to the room and schedules the removal; a room becomes
\* completed only by such a step; and a completed room is eventually absent
\* from the registry.
C14_Completion ==
    /\ [][\A c \in Codes :
             /\ (/\ Handled("finish")
                 /\ last'.roomCode = c
                 /\ last'.ack[1].success
                 /\ \A i \in Indices(activeRooms'[c].participants) :
                       activeRooms'[c].participants[i].finished)
                => /\ activeRooms'[c].status = "completed"
                   /\ activeRooms'[c].endedAt = now
                   /\ \E k \in 1..Len(last'.emits) :
                         /\ last'.emits[k].event = "race:completed"
                         /\ last'.emits[k].to = c
                         /\ last'.emits[k].payload = activeRooms'[c]
                   /\ timers' = Append(timers, [roomCode |-> c, due |-> now + GraceMs])
             /\ (/\ SameRoom(c)
                 /\ activeRooms[c].status # "completed"
                 /\ activeRooms'[c].status = "completed")
                => /\ Handled("finish")
                   /\ last'.roomCode = c
                   /\ last'.ack[1].success
                   /\ \A i \in Indices(activeRooms'[c].participants) :
                         activeRooms'[c].participants[i].finished]_vars
    /\ \A c \in Codes :
          (Has(c) /\ activeRooms[c].status = "completed") ~> ~Has(c)
\* The second of two participants has just finished and completed the room.
C14_Witness ==
    /\ last.op = "finish"
    /\ Has(last.roomCode)
    /\ Len(activeRooms[last.roomCode].participants) = 2
    /\ activeRooms[last.roomCode].status = "completed"
    /\ Len(last.emits) = 2
    /\ last.emits[2].event = "race:completed"
    /\ timers # <<>>

\* The acknowledgement of the handler that just ran reports a failure.
Failed == Len(last'.ack) = 1 /\ ~last'.ack[1].success

\* C16: a race:join on an unknown or started room, a race:start by a
\* non-creator or on a room that is not waiting, and a race:finish outside
\* in_progress or from a connection bound to no room all fail; and every
\* failed join, start or finish emits nothing and leaves activeRooms,
\* userToRoom, the socket.io rooms and the timers as they were.
C16_FailuresChangeNothing ==
    [][\A s \in Sockets :
          /\ (/\ Handled("join")
              /\ last'.socket = s
              /\ \/ ~Has(last'.roomCode)
                 \/ activeRooms[last'.roomCode].status # "waiting")
             => Failed
          /\ (/\ Handled("start")
              /\ last'.socket = s
              /\ s \in DOMAIN userToRoom
              /\ Has(userToRoom[s])
              /\ \/ activeRooms[userToRoom[s]].status # "waiting"
                 \/ activeRooms[userToRoom[s]].createdBy # User(s).userId)
             => Failed
          /\ (/\ Handled("finish")
              /\ last'.socket = s
              /\ \/ s \notin DOMAIN userToRoom
                 \/ ~Has(userToRoom[s])
                 \/ activeRooms[userToRoom[s]].status # "in_progress")
             => Failed
          /\ (/\ \/ Handled("join") \/ Handled("start") \/ Handled("finish")
              /\ last'.socket = s
              /\ Failed)
             => /\ last'.emits = NoEmits
                /\ activeRooms' = activeRooms
                /\ userToRoom' = userToRoom
                /\ sioRooms' = sioRooms
                /\ timers' = timers]_vars
\* A participant's finish was refused because its room has not started.
C16_Witness ==
    /\ last.op = "finish"
    /\ last.ack = Fail("Race not in progress")
    /\ last.emits = NoEmits
    /\ Has(last.roomCode)
    /\ activeRooms[last.roomCode].status = "waiting"
    /\ FindParticipant(activeRooms[last.roomCode].participants, last.socket) # 0

\* C17: in every state startedAt is null exactly while the room is waiting
\* and endedAt is null exactly while it is not completed; startedAt is
\* written only by the step waiting -> in_progress and endedAt only by the
\* step in_progress -> completed, each with the time of that step, and a
\* value that is set never changes.
C17_TimestampsSetOnce ==
    /\ [](\A c \in DOMAIN activeRooms :
             /\ activeRooms[c].startedAt = Null <=> activeRooms[c].status = "waiting"
             /\ activeRooms[c].endedAt = Null <=> activeRooms[c].status # "completed")
    /\ [][\A c \in Codes :
             SameRoom(c) =>
                /\ activeRooms[c].startedAt # Null
                      => activeRooms'[c].startedAt = activeRooms[c].startedAt
                /\ activeRooms[c].endedAt # Null
                      => activeRooms'[c].endedAt = activeRooms[c].endedAt
                /\ activeRooms'[c].startedAt # activeRooms[c].startedAt
                      => /\ activeRooms[c].status = "waiting"
                         /\ activeRooms'[c].status = "in_progress"
                         /\ activeRooms'[c].startedAt = now
                /\ activeRooms'[c].endedAt # activeRooms[c].endedAt
                      => /\ activeRooms[c].status = "in_progress"
                         /\ activeRooms'[c].status = "completed"
                         /\ activeRooms'[c].endedAt = now]_vars
\* A race that started at one instant and completed at a later one.
C17_Witness ==
    \E c \in DOMAIN activeRooms :
        /\ activeRooms[c].status = "completed"
        /\ activeRooms[c].startedAt # Null
        /\ activeRooms[c].endedAt > activeRooms[c].startedAt

\* C18: a handshake without a token or with a token verifyToken rejects
\* ends in a rejected connection and touches no room state; a rejected
\* connection stays rejected, no handler ever runs for it, and it is in no
\* participant list, in no socket.io room and not in the index.
C18_RejectedNeverActs ==
    /\ [](\A s \in Sockets :
             conn[s] = "rejected" =>
                /\ s \notin DOMAIN userToRoom
                /\ \A c \in Codes : s \notin sioRooms[c]
                /\ \A c \in DOMAIN activeRooms :
                      FindParticipant(activeRooms[c].participants, s) = 0)
    /\ [][/\ (Handled("connect") /\ last'.token # "valid")
                => /\ conn'[last'.socket] = "rejected"
                   /\ Failed
                   /\ activeRooms' = activeRooms
                   /\ userToRoom' = userToRoom
                   /\ sioRooms' = sioRooms
          /\ \A s \in Sockets :
                conn[s] = "rejected" =>
                   /\ conn'[s] = "rejected"
                   /\ last'.socket # s]_vars
\* A handshake with a bad token was refused while a room is active.
C18_Witness ==
    /\ last.op = "connect"
    /\ last.token = "invalid"
    /\ conn[last.socket] = "rejected"
    /\ activeRooms # <<>>

\* C19: the events are applied one at a time: at most one callback is in
\* flight, and when a callback does its updates the registry is exactly as it
\* was when the callback was dispatched and read it, so no other event (for
\* the same room or any other) was applied in between.
C19_HandlersAtomic ==
    /\ [](Cardinality({s \in Sockets : running[s].op # "none"}) <= 1)
    /\ [][\A s \in Sockets :
             (/\ running[s].op # "none"
              /\ Handled(running[s].op)
              /\ last'.socket = s)
             => running[s].seen = activeRooms]_vars
\* A race:finish has been dispatched for a participant of a running race in
\* which another participant has already finished.
C19_Witness ==
    \E s \in Sockets :
        /\ running[s].op = "finish"
        /\ s \in DOMAIN userToRoom
        /\ Has(userToRoom[s])
        /\ activeRooms[userToRoom[s]].status = "in_progress"
        /\ FinishedCount(activeRooms[userToRoom[s]].participants) = 1
        /\ Len(activeRooms[userToRoom[s]].participants) = 2
        /\ ~activeRooms[userToRoom[s]].participants[
               FindParticipant(activeRooms[userToRoom[s]].participants, s)].finished

\* Room c holds exactly creator A (connection s1) and joiner B (connection
\* s2), in that order, and both are in its socket.io room.
Pair(c) ==
    /\ Has(c)
    /\ activeRooms[c].createdBy = User("s1").userId
    /\ Len(activeRooms[c].participants) = 2
    /\ activeRooms[c].participants[1].socketId = "s1"
    /\ activeRooms[c].participants[2].socketId = "s2"
    /\ sioRooms[c] = {"s1", "s2"}
    /\ "s1" \in DOMAIN userToRoom /\ userToRoom["s1"] = c
    /\ "s2" \in DOMAIN userToRoom /\ userToRoom["s2"] = c

\* C20: the two-player race.  B joins A's waiting room and is acknowledged
\* with a room of 2 participants; A starts and race:started goes to both; B
\* finishes first: its ack carries position 1 and participant-finished with
\* position 1 and B's reported wpm goes to both; A finishes: its ack carries
\* position 2, the room becomes completed, race:completed goes to both and
\* the removal is scheduled for the end of the grace period; when a timer of
\* that code fires, the room leaves the registry.
C20_TwoPlayerRace ==
    [][\A c \in Codes :
          /\ (/\ Handled("join") /\ last'.socket = "s2" /\ last'.roomCode = c
              /\ Has(c)
              /\ activeRooms[c].status = "waiting"
              /\ Len(activeRooms[c].participants) = 1
              /\ activeRooms[c].participants[1].socketId = "s1"
              /\ sioRooms[c] = {"s1"})
             => /\ last'.ack[1].success
                /\ Len(last'.ack[1].room.participants) = 2
                /\ last'.ack[1].room.participants[2].socketId = "s2"
                /\ Len(last'.emits) = 1
                /\ last'.emits[1].event = "race:updated"
                /\ last'.emits[1].recipients = {"s1", "s2"}
          /\ (/\ Handled("start") /\ last'.socket = "s1"
              /\ Pair(c)
              /\ activeRooms[c].status = "waiting")
             => /\ last'.ack = <<[success |-> TRUE]>>
                /\ Len(last'.emits) = 1
                /\ last'.emits[1].event = "race:started"
                /\ last'.emits[1].recipients = {"s1", "s2"}
                /\ activeRooms'[c].status = "in_progress"
          /\ (/\ Handled("finish") /\ last'.socket = "s2"
              /\ Pair(c)
              /\ activeRooms[c].status = "in_progress"
              /\ ~activeRooms[c].participants[1].finished
              /\ ~activeRooms[c].participants[2].finished)
             => /\ last'.ack = <<[success |-> TRUE, position |-> 1]>>
                /\ Len(last'.emits) = 1
                /\ last'.emits[1].event = "race:participant-finished"
                /\ last'.emits[1].recipients = {"s1", "s2"}
                /\ last'.emits[1].payload.position = 1
                /\ last'.emits[1].payload.username = User("s2").username
                /\ \E data \in FinishData : last'.emits[1].payload.wpm = data.wpm
                /\ activeRooms'[c].status = "in_progress"
          /\ (/\ Handled("finish") /\ last'.socket = "s1"
              /\ Pair(c)
              /\ activeRooms[c].status = "in_progress"
              /\ ~activeRooms[c].participants[1].finished
              /\ activeRooms[c].participants[2].finished
              /\ activeRooms[c].participants[2].position = 1)
             => /\ last'.ack = <<[success |-> TRUE, position |-> 2]>>
                /\ activeRooms'[c].status = "completed"
                /\ Len(last'.emits) = 2
                /\ last'.emits[2].event = "race:completed"
                /\ last'.emits[2].recipients = {"s1", "s2"}
                /\ timers' = Append(timers, [roomCode |-> c, due |-> now + GraceMs])
          /\ (/\ TimerFired
              /\ Head(timers).roomCode = c
              /\ Pair(c)
              /\ activeRooms[c].status = "completed")
             => /\ c \notin DOMAIN activeRooms'
                /\ timers' = Tail(timers)]_vars
\* The end of the scenario: A's finish, acknowledged with position 2, has
\* completed the room in which B holds position 1.
C20_Witness ==
    /\ last.op = "finish"
    /\ last.socket = "s1"
    /\ last.ack = <<[success |-> TRUE, position |-> 2]>>
    /\ Pair(last.roomCode)
    /\ activeRooms[last.roomCode].status = "completed"
    /\ activeRooms[last.roomCode].participants[2].position = 1
    /\ activeRooms[last.roomCode].participants[2].wpm = 80
    /\ activeRooms[last.roomCode].participants[1].position = 2

\* The room of connection s and the index of its participant entry there
\* (what a handler finds through userToRoom and participants.find).
RoomOf(s) == userToRoom[s]
EntryOf(s) == FindParticipant(activeRooms[userToRoom[s]].participants, s)
\* Connection s is bound to an active room that holds an entry for it.
Bound(s) ==
    /\ s \in DOMAIN userToRoom
    /\ Has(userToRoom[s])
    /\ FindParticipant(activeRooms[userToRoom[s]].participants, s) # 0

\* C21: a successful race:finish assigns position = 1 + the number of
\* participants of the room that were finished when the event arrived,
\* records the reported wpm and accuracy on the sender's entry, returns the
\* position in the ack and broadcasts participant-finished with the same
\* position and the reported wpm.
C21_FinishPosition ==
    [][\A s \in Sockets :
          (/\ Handled("finish")
           /\ last'.socket = s
           /\ last'.ack[1].success)
          => LET c == RoomOf(s)
                 before == activeRooms[c].participants
                 p == activeRooms'[c].participants[EntryOf(s)]
             IN /\ p.position = 1 + FinishedCount(before)
                /\ last'.ack[1].position = p.position
                /\ last'.emits[1].event = "race:participant-finished"
                /\ last'.emits[1].payload.position = p.position
                /\ \E data \in FinishData :
                      /\ p.wpm = data.wpm
                      /\ p.accuracy = data.accuracy
                      /\ last'.emits[1].payload.wpm = data.wpm]_vars

\* C22: an accepted race:progress (room in_progress, sender a participant)
\* sets the sender's wpm, accuracy and progress to exactly the reported
\* values, 0 included, and broadcasts race:progress with those values.
C22_ProgressRecordsReported ==
    [][\A s \in Sockets :
          (/\ Handled("progress")
           /\ last'.socket = s
           /\ Bound(s)
           /\ activeRooms[RoomOf(s)].status = "in_progress")
          => LET p == activeRooms'[RoomOf(s)].participants[EntryOf(s)] IN
             \E data \in ProgressData :
                /\ p.wpm = data.wpm
                /\ p.accuracy = data.accuracy
                /\ p.progress = data.progress
                /\ Len(last'.emits) = 1
                /\ last'.emits[1].event = "race:progress"
                /\ last'.emits[1].payload.wpm = data.wpm
                /\ last'.emits[1].payload.accuracy = data.accuracy
                /\ last'.emits[1].payload.progress = data.progress]_vars

\* C23: a successful race:create puts a room under the new code that is
\* waiting, has startedAt and endedAt null, createdBy = the caller's identity
\* and exactly one participant, the caller, with wpm 0, accuracy 100,
\* progress 0, finished false and position null; it binds the caller's
\* connection to the code and acks with the code and the room.
C23_CreateResult ==
    [][\A s \in Sockets :
          (Handled("create") /\ last'.socket = s) =>
             LET c == last'.roomCode IN
             /\ c \in DOMAIN activeRooms'
             /\ activeRooms'[c].roomCode = c
             /\ activeRooms'[c].status = "waiting"
             /\ activeRooms'[c].startedAt = Null
             /\ activeRooms'[c].endedAt = Null
             /\ activeRooms'[c].createdBy = User(s).userId
             /\ Len(activeRooms'[c].participants) = 1
             /\ LET p == activeRooms'[c].participants[1] IN
                /\ p.socketId = s
                /\ p.userId = User(s).userId
                /\ p.username = User(s).username
                /\ p.wpm = 0
                /\ p.accuracy = 100
                /\ p.progress = 0
                /\ ~p.finished
                /\ p.finishedAt = Null
                /\ p.position = Null
             /\ s \in DOMAIN userToRoom'
             /\ userToRoom'[s] = c
             /\ last'.ack = <<[success |-> TRUE, roomCode |-> c, room |-> activeRooms'[c]]>>]_vars
\* A room has just been created and acknowledged.
C23_Witness ==
    /\ last.op = "create"
    /\ last.ack[1].success
    /\ Has(last.roomCode)
    /\ last.ack[1].room = activeRooms[last.roomCode]
    /\ userToRoom[last.socket] = last.roomCode

\* C24: a successful race:join appends the joiner as the last participant
\* with wpm 0, accuracy 100, progress 0, finished false and position null,
\* leaves the entries that were there unchanged and in order, acks with a
\* snapshot of the room that contains the joiner, and emits race:updated to
\* every connection bound to the room or holding an entry in it, the joiner
\* included.
C24_JoinResult ==
    [][\A s \in Sockets :
          (/\ Handled("join")
           /\ last'.socket = s
           /\ last'.ack[1].success) =>
             LET c == last'.roomCode
                 before == activeRooms[c].participants
                 after == activeRooms'[c].participants
             IN /\ Len(after) = Len(before) + 1
                /\ \A i \in Indices(before) : after[i] = before[i]
                /\ LET p == after[Len(after)] IN
                   /\ p.socketId = s
                   /\ p.userId = User(s).userId
                   /\ p.wpm = 0
                   /\ p.accuracy = 100
                   /\ p.progress = 0
                   /\ ~p.finished
                   /\ p.finishedAt = Null
                   /\ p.position = Null
                /\ last'.ack[1].room = activeRooms'[c]
                /\ Len(last'.emits) = 1
                /\ last'.emits[1].event = "race:updated"
                /\ last'.emits[1].payload = activeRooms'[c]
                /\ s \in last'.emits[1].recipients
                /\ \A t \in Sockets :
                      (\/ (t \in DOMAIN userToRoom' /\ userToRoom'[t] = c)
                       \/ (conn[t] = "connected" /\ FindParticipant(after, t) # 0))
                      => t \in last'.emits[1].recipients]_vars
\* A second participant has just joined a room.
C24_Witness ==
    /\ last.op = "join"
    /\ last.ack[1].success
    /\ Has(last.roomCode)
    /\ Len(activeRooms[last.roomCode].participants) = 2
    /\ activeRooms[last.roomCode].participants[2].socketId = last.socket
    /\ activeRooms[last.roomCode].participants[1].socketId # last.socket

\* C25: a race:progress or race:finish from connection s changes no
\* participant entry of another connection, in its room or in any other:
\* every entry whose socketId is not s stays where it is with the same wpm,
\* accuracy, progress, finished, finishedAt and position.
C25_OnlyOwnEntry ==
    [][\A s \in Sockets :
          (/\ Handled("progress") \/ Handled("finish")
           /\ last'.socket = s)
          => \A c \in DOMAIN activeRooms :
                /\ c \in DOMAIN activeRooms'
                /\ Len(activeRooms'[c].participants) = Len(activeRooms[c].participants)
                /\ \A i \in Indices(activeRooms[c].participants) :
                      activeRooms[c].participants[i].socketId # s
                      => activeRooms'[c].participants[i] = activeRooms[c].participants[i]]_vars
\* The second participant's progress was recorded and broadcast while the
\* first participant's entry still shows its initial values.
C25_Witness ==
    /\ last.op = "progress"
    /\ Len(last.emits) = 1
    /\ Has(last.roomCode)
    /\ Len(activeRooms[last.roomCode].participants) = 2
    /\ activeRooms[last.roomCode].participants[2].socketId = last.socket
    /\ activeRooms[last.roomCode].participants[2].progress = 50
    /\ activeRooms[last.roomCode].participants[1].socketId # last.socket
    /\ activeRooms[last.roomCode].participants[1].progress = 0

\* C26: events of different rooms are independent.  A join, start, progress,
\* finish or disconnect processed for the room at one code leaves the room at
\* every other code as it is; and a grace timer that expires leaves every
\* room as it is except the completed room whose completion scheduled it.
C26_RoomsIndependent ==
    [][/\ (\/ Handled("join") \/ Handled("start") \/ Handled("progress")
           \/ Handled("finish") \/ Handled("disconnect"))
          => \A c \in DOMAIN activeRooms :
                c # last'.roomCode
                => c \in DOMAIN activeRooms' /\ activeRooms'[c] = activeRooms[c]
       /\ TimerFired
          => \A c \in DOMAIN activeRooms :
                ~(/\ c = Head(timers).roomCode
                  /\ activeRooms[c].status = "completed"
                  /\ activeRooms[c].endedAt + GraceMs = Head(timers).due)
                => c \in DOMAIN activeRooms' /\ activeRooms'[c] = activeRooms[c]]_vars

\* C27: a race:start or race:finish from a connection the index binds to no
\* room fails with "Not in a room", a race:progress from such a connection
\* gets no answer at all, and in all three cases no room, index entry,
\* socket.io room or timer changes and nothing is broadcast.
C27_UnboundRejected ==
    [][\A s \in Sockets :
          (/\ Handled("start") \/ Handled("finish") \/ Handled("progress")
           /\ last'.socket = s
           /\ s \notin DOMAIN userToRoom)
          => /\ Handled("progress") => last'.ack = NoAck
             /\ ~Handled("progress") => last'.ack = Fail("Not in a room")
             /\ last'.emits = NoEmits
             /\ activeRooms' = activeRooms
             /\ userToRoom' = userToRoom
             /\ sioRooms' = sioRooms
             /\ timers' = timers]_vars
\* A connection bound to no room asked to start while another connection's
\* room is waiting.
C27_Witness ==
    /\ last.op = "start"
    /\ last.ack = Fail("Not in a room")
    /\ last.socket \notin DOMAIN userToRoom
    /\ \E c \in DOMAIN activeRooms : activeRooms[c].status = "waiting"

\* The step just taken broadcast `event` to the socket.io room of code c.
Emitted(event, c) ==
    /\ last = Idle
    /\ \E k \in 1..Len(last'.emits) :
          last'.emits[k].event = event /\ last'.emits[k].to = c

\* C28: a successful start sets status in_progress and broadcasts
\* race:started carrying exactly the room's startedAt.  race:started is
\* broadcast once per room: only by the step that takes the room from
\* waiting to in_progress, by every such step, and a room never returns to
\* waiting.  It precedes the room's other race broadcasts: race:progress,
\* race:participant-finished and race:completed are only emitted for a room
\* that already has its startedAt.  A finish that completes the room is
\* acknowledged and broadcasts participant-finished before race:completed.
C28_StartedOnceAndFirst ==
    [][\A c \in Codes :
          /\ (Handled("start") /\ last'.roomCode = c /\ last'.ack = <<[success |-> TRUE]>>)
             => /\ activeRooms'[c].status = "in_progress"
                /\ last'.emits = <<[event |-> "race:started", to |-> c,
                                   recipients |-> sioRooms[c],
                                   payload |-> [startTime |-> activeRooms'[c].startedAt]]>>
          /\ Emitted("race:started", c)
             => /\ Handled("start")
                /\ Len(last'.emits) = 1
                /\ Has(c)
                /\ activeRooms[c].status = "waiting"
                /\ activeRooms[c].startedAt = Null
                /\ activeRooms'[c].status = "in_progress"
          /\ (SameRoom(c) /\ activeRooms[c].status = "waiting"
                 /\ activeRooms'[c].status # "waiting")
             => Emitted("race:started", c)
          /\ (SameRoom(c) /\ activeRooms[c].status # "waiting")
             => activeRooms'[c].status # "waiting"
          /\ (\/ Emitted("race:progress", c)
              \/ Emitted("race:participant-finished", c)
              \/ Emitted("race:completed", c))
             => /\ Has(c)
                /\ activeRooms[c].startedAt # Null
                /\ ~Emitted("race:started", c)
          /\ Emitted("race:completed", c)
             => /\ Len(last'.ack) = 1
                /\ last'.ack[1].success
                /\ Len(last'.emits) = 2
                /\ last'.emits[1].event = "race:participant-finished"
                /\ last'.emits[1].to = c
                /\ last'.emits[2].event = "race:completed"]_vars
\* A race was started some time after its room was created, and
\* race:started carries that time.
C28_Witness ==
    /\ last.op = "start"
    /\ last.ack = <<[success |-> TRUE]>>
    /\ Has(last.roomCode)
    /\ now = 2 * TickMs
    /\ activeRooms[last.roomCode].startedAt = now
    /\ last.emits[1].payload.startTime = now
    /\ Len(activeRooms[last.roomCode].participants) = 2

\* C29: the index agrees with the rooms: for every active room and every
\* participant in it, the index maps the participant's connection to that
\* room's code (so a connection has entries in at most one room), also after
\* the connection issued a further race:create or race:join.
C29_IndexAgreesWithRooms ==
    \A c \in DOMAIN activeRooms :
        \A i \in Indices(activeRooms[c].participants) :
            LET s == activeRooms[c].participants[i].socketId IN
            /\ s \in DOMAIN userToRoom
            /\ userToRoom[s] = c

\* C30: every entry of the index refers to a room that is in the registry
\* and holds a participant entry for that connection; no entry outlives its
\* room, whether the room was removed as empty or by the grace timer.
C30_IndexEntriesLive ==
    \A s \in DOMAIN userToRoom :
        /\ userToRoom[s] \in DOMAIN activeRooms
        /\ FindParticipant(activeRooms[userToRoom[s]].participants, s) # 0

\* C31: no room outlives its connections: every participant entry of an
\* active room belongs to a connection that has not yet disconnected, so a
\* room whose creator and joiners have all disconnected is absent from the
\* registry.
C31_NoRoomOutlivesConnections ==
    \A c \in DOMAIN activeRooms :
        \A i \in Indices(activeRooms[c].participants) :
            conn[activeRooms[c].participants[i].socketId] = "connected"

\* Some currently present participant of `room` has the identity createdBy.
CreatorPresent(room) ==
    \E i \in Indices(room.participants) :
        room.participants[i].userId = room.createdBy

\* The createdBy of a room that stays in the registry does not change.
C32_CreatedByFixed ==
    [][\A c \in DOMAIN activeRooms \cap DOMAIN activeRooms' :
           activeRooms'[c].createdBy = activeRooms[c].createdBy]_vars

\* C32: a waiting room that still has participants can always be started:
\* the room's createdBy never changes, and in every reachable state a waiting
\* room with participants holds a present participant whose identity is
\* createdBy, also after the creator's connection has disconnected.
C32_WaitingRoomStartable ==
    [][/\ \A c \in DOMAIN activeRooms \cap DOMAIN activeRooms' :
              activeRooms'[c].createdBy = activeRooms[c].createdBy
       /\ \A c \in DOMAIN activeRooms' :
              (/\ activeRooms'[c].status = "waiting"
               /\ Len(activeRooms'[c].participants) > 0)
                  => CreatorPresent(activeRooms'[c])]_vars

\* C33: once a participant has finished, its recorded wpm and accuracy are
\* those its finish event reported, and a later race:progress from the same
\* connection, the room still being in_progress, does not change them.
C33_FinalResultsKept ==
    [][\A s \in Sockets :
          /\ (/\ Handled("finish")
              /\ last'.socket = s
              /\ last'.ack[1].success)
             => LET p == activeRooms'[RoomOf(s)].participants[EntryOf(s)]
                IN /\ p.finished
                   /\ \E data \in FinishData :
                         /\ p.wpm = data.wpm
                         /\ p.accuracy = data.accuracy
          /\ (/\ Handled("progress")
              /\ last'.socket = s
              /\ Bound(s)
              /\ activeRooms[RoomOf(s)].status = "in_progress"
              /\ activeRooms[RoomOf(s)].participants[EntryOf(s)].finished)
             => LET before == activeRooms[RoomOf(s)].participants[EntryOf(s)]
                    after == activeRooms'[RoomOf(s)].participants[EntryOf(s)]
                IN /\ after.wpm = before.wpm
                   /\ after.accuracy = before.accuracy]_vars

\* C34: the hook's raceStatus tracks the room the client is currently in:
\* whenever the hook's roomCode names a room that is waiting on the server
\* and holds the client's participant entry (as after a successful
\* createRoom or joinRoom ack and until race:started for that room), its
\* raceStatus is "waiting", never "in_progress" or "completed", also when
\* the client took part in an earlier race that started or completed.
C34_RaceStatusTracksRoom ==
    \A s \in Sockets :
        (/\ conn[s] = "connected"
         /\ clientRoomCode[s] # NoCode
         /\ Has(clientRoomCode[s])
         /\ activeRooms[clientRoomCode[s]].status = "waiting"
         /\ FindParticipant(activeRooms[clientRoomCode[s]].participants, s) # 0)
        => raceStatus[s] = "waiting"

====
